---- MODULE Spec2Model ----
(***************************************************************************)
(* A model of the client-side session layer (contexts/AuthContext.tsx,     *)
(* lib/auth-api.ts) and of the data-access layer (hooks/useWordPress.ts,   *)
(* the WordPress gateway in lib/auth-api.ts and lib/server-api.ts) of the  *)
(* tailnews-react front end.                                               *)
(*                                                                         *)
(* Nullable values are sequences of length 0 or 1: Null is null/undefined, *)
(* Some(v) is the value v.  Time is counted in minutes.                    *)
(***************************************************************************)
EXTENDS Integers, Sequences, FiniteSets, TLC

VARIABLES
    state,          \* AuthProvider: the reducer state (AuthState)
    localStorage,   \* browser storage: auth_token, refresh_token, user_data
    inflight,       \* AuthProvider: async operations waiting for the server
    calls,          \* number of calls made to the context's functions so far
    refreshTimer,   \* the setTimeout of the auto-refresh effect: its deadline
    errorTimer,     \* the setTimeout of the clear-error effect is pending
    mounted,        \* the mount effect (checkAuth) has run
    now,            \* Date.now(), in minutes
    autoRefreshed,  \* history: the tokens for which the auto-refresh timeout ran
    last,           \* history: the handler that ran last, and for login and
                    \* register the responses it met
    hooks,          \* data hooks rendered by components: their cache key
    cache,          \* the hooks' cache: per key the fetcher's last result
    FETCH,          \* the cache's request marker per key
    requests,       \* fetcher calls waiting for WordPress
    fetchCount,     \* per key, the number of fetcher calls made (the spy)
    lastWire,       \* history: per key, what the last fetcher call met
    ssr,            \* the last server-side lookup by slug and its result
    serverCall,     \* server-api.ts: the page-data function being awaited
    utilCall,       \* a call of a pure function: its name and arguments
    utilReturn,     \* the value that call returned, once it has
    saveButtons,    \* SaveOfflineButton components, each with its own
                    \* useOfflineContent state
    offlineStorage, \* localStorage['offline-articles']
    cacheBucket,    \* the URLs held in the 'offline-articles' cache
    browser,        \* what the browser supports, its connectivity and its
                    \* install prompt
    pwa,            \* the state of a component's usePWA hook and the
                    \* installApp call it made
    pagination,     \* the pagination fields of the WordPress store
    searchBar       \* the SearchBar's query, the search requests issued for
                    \* it, and as history which values were typed over
                    \* before a pause and which remained at a pause

authVars == <<state, localStorage, inflight, calls, refreshTimer, errorTimer,
              mounted, now, autoRefreshed, last>>

dataVars == <<hooks, cache, FETCH, requests, fetchCount, lastWire, ssr>>

serverVars == <<serverCall>>

utilVars == <<utilCall, utilReturn>>

offlineVars == <<saveButtons, offlineStorage, cacheBucket>>

pwaVars == <<browser, pwa>>
searchVars == <<searchBar>>
paginationVars == <<pagination>>

\* What the handlers of one component leave alone.
restVars == <<serverVars, utilVars, offlineVars, pwaVars, searchVars, paginationVars>>
nonAuthVars == <<dataVars, restVars>>
nonDataVars == <<authVars, restVars>>
nonServerVars ==
    <<authVars, dataVars, utilVars, offlineVars, pwaVars, searchVars, paginationVars>>
nonUtilVars ==
    <<authVars, dataVars, serverVars, offlineVars, pwaVars, searchVars, paginationVars>>
nonOfflineVars ==
    <<authVars, dataVars, serverVars, utilVars, pwaVars, searchVars, paginationVars>>
nonPwaVars ==
    <<authVars, dataVars, serverVars, utilVars, offlineVars, searchVars, paginationVars>>
nonSearchVars ==
    <<authVars, dataVars, serverVars, utilVars, offlineVars, pwaVars, paginationVars>>
nonPaginationVars ==
    <<authVars, dataVars, serverVars, utilVars, offlineVars, pwaVars, searchVars>>
vars == <<authVars, dataVars, restVars>>

Null == <<>>
Some(v) == <<v>>
IsNull(o) == Len(o) = 0
Val(o) == o[1]
\* JavaScript's a || b on nullable values.
OrElse(a, b) == IF IsNull(a) THEN b ELSE a

(***************************************************************************)
(* Bounds and program constants                                            *)
(***************************************************************************)
MaxTime == 2
MaxCalls == 1
MaxHooks == 2
MaxText == 4
MaxBudget == 3
MaxButtons == 2
MaxKeys == 5
MaxPages == 15
\* 5 * 60 * 1000 ms, in minutes
RefreshLead == 5

(***************************************************************************)
(* The server's side: tokens, refresh tokens, user payloads, responses     *)
(***************************************************************************)
\* A JWT string: id tells two strings apart, decodable says whether its
\* middle part is base64url JSON, exp is the payload's exp claim.
Token(i, e) == [id |-> i, decodable |-> TRUE, exp |-> e]
GarbageToken == [id |-> 0, decodable |-> FALSE, exp |-> 0]
JwtTokens == {Token(1, 1), Token(2, 6)}
RefreshTokens == {"rt1", "rt2"}

\* The user object of /token/validate (data) and of /users/<id>.
WpUser(i, hr, r, hc, c) ==
    [id |-> i, hasRoles |-> hr, roles |-> r, hasCaps |-> hc, capabilities |-> c]
NoCaps == [c \in {} |-> TRUE]
WpUsers ==
    { WpUser(7, TRUE, <<"editor", "author">>, TRUE,
             [c \in {"edit_posts", "edit_others_posts"} |-> c = "edit_posts"]),
      WpUser(7, FALSE, <<>>, FALSE, NoCaps) }

\* What one HTTP exchange can give makeRequest.
\*   ok         2xx with a JSON body
\*   http_error non-2xx with a JSON body, whose message may be absent
\*   network    fetch rejects (TypeError)
\*   bad_json   the body is not JSON (response.json() throws)
Resp(k, m, t, r, d, u) ==
    [kind |-> k, message |-> m, token |-> t, refresh_token |-> r,
     hasData |-> d, data |-> u]
NoResp == Resp("none", Null, GarbageToken, Null, FALSE, WpUser(0, FALSE, <<>>, FALSE, NoCaps))
FailResponses ==
    { Resp("http_error", m, GarbageToken, Null, FALSE, NoResp.data) :
          m \in {Null, Some(""), Some("Invalid username or password.")} }
    \cup { Resp(k, Null, GarbageToken, Null, FALSE, NoResp.data) :
          k \in {"network", "bad_json"} }
\* /token and /token/refresh: a token that is not yet expired, and perhaps a
\* refresh token.
OkTokenResponses(t) ==
    { Resp("ok", Null, tok, r, FALSE, NoResp.data) :
          tok \in {x \in JwtTokens : x.exp > t},
          r \in {Null, Some("rt2")} }
\* /token/validate: {data: user}, or a body without data.
OkValidateResponses ==
    { Resp("ok", Null, GarbageToken, Null, TRUE, u) : u \in WpUsers }
ValidateResponses ==
    OkValidateResponses
    \cup { Resp("ok", Null, GarbageToken, Null, FALSE, NoResp.data) }
    \cup FailResponses
\* POST /users and POST /users/<id>: the user object itself.
UserResponses ==
    { Resp("ok", Null, GarbageToken, Null, TRUE, u) : u \in WpUsers }
    \cup FailResponses
\* The two exchanges of login and of refreshToken: the second is made only
\* when the first succeeded, and the token of the first does not matter when
\* the second fails.
TokenThenValidate(t) ==
    { <<f, NoResp>> : f \in FailResponses }
    \cup (OkTokenResponses(t) \X OkValidateResponses)
    \cup IF OkTokenResponses(t) = {} THEN {}
         ELSE { <<CHOOSE r1 \in OkTokenResponses(t) : TRUE, r2>> :
                    r2 \in ValidateResponses \ OkValidateResponses }

(***************************************************************************)
(* lib/auth-api.ts: AuthAPI                                                *)
(***************************************************************************)
\* What an awaited call gives: a value, or a thrown error.  isAuthError is
\* `error instanceof AuthAPIError`.
Returned(v) == [threw |-> FALSE, isAuthError |-> FALSE, message |-> "", value |-> v]
Threw(isAuth, msg, v) == [threw |-> TRUE, isAuthError |-> isAuth, message |-> msg, value |-> v]

\* data.message || 'Authentication request failed': an empty message is falsy.
messageOr(message, fallback) ==
    IF IsNull(message) \/ message = Some("") THEN fallback ELSE Val(message)

\* makeRequest with the server's message dropped.
makeRequestGenericMessage(resp) ==
    CASE resp.kind = "ok" -> Returned(resp)
      [] resp.kind = "network" ->
            Threw(TRUE, "Network error - please check your connection", resp)
      [] OTHER -> Threw(TRUE, "Authentication request failed", resp)

makeRequest(resp) ==
    CASE resp.kind = "ok" -> Returned(resp)
      [] resp.kind = "http_error" ->
            Threw(TRUE, messageOr(resp.message, "Authentication request failed"), resp)
      [] resp.kind = "network" ->
            Threw(TRUE, "Network error - please check your connection", resp)
      [] OTHER -> Threw(TRUE, "An unexpected error occurred", resp)

User(i, r, c) == [id |-> i, roles |-> r, capabilities |-> c]
\* transformUser without the capabilities of the payload.
transformUserNoCapabilities(wpUser) ==
    User(wpUser.id, IF wpUser.hasRoles THEN wpUser.roles ELSE <<>>, NoCaps)

transformUser(wpUser) ==
    User(wpUser.id,
         IF wpUser.hasRoles THEN wpUser.roles ELSE <<>>,
         IF wpUser.hasCaps THEN wpUser.capabilities ELSE NoCaps)

AuthResponse(t, u, r) == [token |-> t, user |-> u, refreshToken |-> r]
NoAuthResponse == AuthResponse(GarbageToken, transformUser(NoResp.data), Null)

\* validateToken: transformUser(response.data) reads a property of undefined
\* when the body has no data, which is a TypeError and no AuthAPIError.
validateToken(r2) ==
    LET a == makeRequest(r2) IN
    IF a.threw THEN Threw(TRUE, a.message, transformUser(NoResp.data))
    ELSE IF ~r2.hasData THEN Threw(FALSE, "TypeError", transformUser(NoResp.data))
    ELSE Returned(transformUser(r2.data))

\* login: POST /token, then POST /token/validate.
authLogin(r1, r2) ==
    LET a == makeRequest(r1) IN
    IF a.threw THEN Threw(TRUE, a.message, NoAuthResponse)
    ELSE LET u == validateToken(r2) IN
         IF u.threw THEN Threw(u.isAuthError, u.message, NoAuthResponse)
         ELSE Returned(AuthResponse(r1.token, u.value, r1.refresh_token))

\* register: POST /users, then login.
authRegister(r0, r1, r2) ==
    LET a == makeRequest(r0) IN
    IF a.threw THEN Threw(TRUE, a.message, NoAuthResponse)
    ELSE authLogin(r1, r2)

\* refreshToken: POST /token/refresh, then validateToken.
authRefreshToken(refreshToken, r1, r2) ==
    LET a == makeRequest(r1) IN
    IF a.threw THEN Threw(TRUE, a.message, NoAuthResponse)
    ELSE LET u == validateToken(r2) IN
         IF u.threw THEN Threw(u.isAuthError, u.message, NoAuthResponse)
         ELSE Returned(AuthResponse(r1.token, u.value,
                                    OrElse(r1.refresh_token, Some(refreshToken))))

authUpdateUser(r) ==
    LET a == makeRequest(r) IN
    IF a.threw THEN Threw(TRUE, a.message, transformUser(NoResp.data))
    ELSE Returned(transformUser(r.data))

decodeToken(token) ==
    IF token.decodable THEN Some([exp |-> token.exp]) ELSE Null

\* exp is compared with Date.now() / 1000.
isTokenExpiredUnlessUndecodable(token, t) ==
    LET decoded == decodeToken(token) IN
    IF IsNull(decoded) THEN FALSE ELSE Val(decoded).exp < t

isTokenExpired(token, t) ==
    LET decoded == decodeToken(token) IN
    IF IsNull(decoded) THEN TRUE ELSE Val(decoded).exp < t

storeToken(ls, token, refreshToken) ==
    [ls EXCEPT !.auth_token = Some(token),
               !.refresh_token = IF IsNull(refreshToken) THEN @ ELSE refreshToken]
storeUser(ls, user) == [ls EXCEPT !.user_data = Some(user)]
emptyStorage == [auth_token |-> Null, refresh_token |-> Null, user_data |-> Null]
\* logout() that leaves the refresh token behind.
authAPIlogoutKeepsRefreshToken(ls) ==
    [emptyStorage EXCEPT !.refresh_token = ls.refresh_token]

\* logout() removes the three keys.
authAPIlogout(ls) == emptyStorage

(***************************************************************************)
(* contexts/AuthContext.tsx: the reducer                                   *)
(***************************************************************************)
initialState ==
    [user |-> Null, token |-> Null, refreshToken |-> Null,
     isAuthenticated |-> FALSE, isLoading |-> FALSE, error |-> Null]

AUTH_START(s) == [s EXCEPT !.isLoading = TRUE, !.error = Null]
AUTH_SUCCESS(s, user, token, refreshToken) ==
    [s EXCEPT !.user = Some(user), !.token = Some(token),
              !.refreshToken = OrElse(refreshToken, s.refreshToken),
              !.isAuthenticated = TRUE, !.isLoading = FALSE, !.error = Null]
AUTH_ERROR(s, msg) ==
    [s EXCEPT !.user = Null, !.token = Null, !.refreshToken = Null,
              !.isAuthenticated = FALSE, !.isLoading = FALSE, !.error = Some(msg)]
AUTH_LOGOUTKeepingUser(s) == [initialState EXCEPT !.user = s.user]
AUTH_LOGOUT(s) == initialState
USER_UPDATEAuthenticating(s, user) == [s EXCEPT !.user = Some(user), !.isAuthenticated = TRUE]
USER_UPDATE(s, user) == [s EXCEPT !.user = Some(user)]
CLEAR_ERROR(s) == [s EXCEPT !.error = Null]

(***************************************************************************)
(* contexts/AuthContext.tsx: AuthProvider                                  *)
(***************************************************************************)
Op(i, k, rt, tok) == [id |-> i, kind |-> k, refreshToken |-> rt, token |-> tok]
\* Two pending operations of the same kind are told apart by id.
FreeId(ops) == CHOOSE i \in 1..(Cardinality(ops) + 1) : \A op \in ops : op.id # i

\* The auto-refresh effect, run again when state.token or
\* state.isAuthenticated changed: the old timeout is cleared and a new one is
\* set when the refresh time is still ahead.
autoRefreshEffect(old, new, timer, t) ==
    IF old.token = new.token /\ old.isAuthenticated = new.isAuthenticated THEN timer
    ELSE IF IsNull(new.token) \/ ~new.isAuthenticated THEN Null
    ELSE LET decoded == decodeToken(Val(new.token)) IN
         IF IsNull(decoded) THEN Null
         ELSE LET refreshTime == Val(decoded).exp - t - RefreshLead IN
              IF refreshTime > 0 THEN Some(t + refreshTime) ELSE Null

\* The clear-error effect, run again when state.error changed.
clearErrorEffectNeverArms(old, new, armed) == FALSE

clearErrorEffect(old, new, armed) ==
    IF old.error = new.error THEN armed ELSE ~IsNull(new.error)

\* One handler run to its end or to its next await: the reducer's new state is
\* rendered and the effects run.
Finish(handler, ev, timer, s2, ls2, ops2, started, r1, r2) ==
    /\ state' = s2
    /\ localStorage' = ls2
    /\ inflight' = ops2
    /\ refreshTimer' = autoRefreshEffect(state, s2, timer, now)
    /\ errorTimer' = clearErrorEffect(state, s2, errorTimer)
    /\ autoRefreshed' = IF handler = "refreshTimer" THEN autoRefreshed \cup {state.token}
                        ELSE autoRefreshed
    /\ last' = [handler |-> handler, ev |-> ev, started |-> started, r1 |-> r1, r2 |-> r2]
    /\ UNCHANGED <<now, nonAuthVars>>

\* logout(): authAPI.logout() and AUTH_LOGOUT.
logoutCall(s, ls) == [state |-> AUTH_LOGOUT(s), storage |-> authAPIlogout(ls)]

\* refreshAuth() up to its await: without a stored refresh token it logs out,
\* otherwise the refresh request goes out.
refreshAuthCall(s, ls, ops) ==
    IF IsNull(ls.refresh_token)
    THEN [state |-> logoutCall(s, ls).state, storage |-> logoutCall(s, ls).storage,
          ops |-> ops, started |-> FALSE, ev |-> "refresh_no_token"]
    ELSE [state |-> s, storage |-> ls,
          ops |-> ops \cup {Op(FreeId(ops), "refresh", ls.refresh_token, Null)},
          started |-> TRUE, ev |-> "refresh_started"]

checkAuthCall ==
    LET s1 == AUTH_START(state)
        token == localStorage.auth_token
        storedUser == localStorage.user_data
    IN  IF IsNull(token) \/ IsNull(storedUser)
        THEN Finish("checkAuth", "no_session", refreshTimer, AUTH_LOGOUT(s1),
                    localStorage, inflight, FALSE, NoResp, NoResp)
        ELSE IF isTokenExpired(Val(token), now)
        THEN LET r == refreshAuthCall(s1, localStorage, inflight) IN
             Finish("checkAuth", r.ev, refreshTimer, r.state, r.storage, r.ops,
                    r.started, NoResp, NoResp)
        ELSE Finish("checkAuth", "validate_started", refreshTimer, s1, localStorage,
                    inflight \cup {Op(FreeId(inflight), "validate", Null, token)},
                    TRUE, NoResp, NoResp)

\* useEffect(() => { checkAuth() }, [checkAuth]) on mount.
Mount ==
    /\ ~mounted
    /\ mounted' = TRUE
    /\ UNCHANGED calls
    /\ checkAuthCall

checkAuth ==
    /\ mounted /\ calls < MaxCalls
    /\ calls' = calls + 1
    /\ UNCHANGED mounted
    /\ checkAuthCall

login ==
    /\ mounted /\ calls < MaxCalls
    /\ calls' = calls + 1
    /\ UNCHANGED mounted
    /\ Finish("login", "login_started", refreshTimer, AUTH_START(state), localStorage,
              inflight \cup {Op(FreeId(inflight), "login", Null, Null)}, TRUE, NoResp, NoResp)

\* The rest of login() after `await authAPI.login(credentials)`.
loginSettled(handler, op, res, fallback, r1, r2) ==
    IF ~res.threw
    THEN Finish(handler, "ok", refreshTimer,
                AUTH_SUCCESS(state, res.value.user, res.value.token, res.value.refreshToken),
                storeUser(storeToken(localStorage, res.value.token, res.value.refreshToken),
                          res.value.user),
                inflight \ {op}, FALSE, r1, r2)
    ELSE Finish(handler, "failed", refreshTimer,
                AUTH_ERROR(state, IF res.isAuthError THEN res.message ELSE fallback),
                localStorage, inflight \ {op}, FALSE, r1, r2)

loginDone ==
    \E op \in inflight, rs \in TokenThenValidate(now) :
        /\ op.kind = "login"
        /\ UNCHANGED <<mounted, calls>>
        /\ loginSettled("login", op, authLogin(rs[1], rs[2]),
                        "Login failed. Please try again.", rs[1], rs[2])

register ==
    /\ mounted /\ calls < MaxCalls
    /\ calls' = calls + 1
    /\ UNCHANGED mounted
    /\ Finish("register", "register_started", refreshTimer, AUTH_START(state), localStorage,
              inflight \cup {Op(FreeId(inflight), "register", Null, Null)}, TRUE, NoResp, NoResp)

registerDone ==
    \E op \in inflight, r0 \in UserResponses :
        /\ op.kind = "register"
        /\ UNCHANGED <<mounted, calls>>
        /\ IF r0.kind # "ok"
           THEN loginSettled("register", op, authRegister(r0, NoResp, NoResp),
                             "Registration failed. Please try again.", r0, NoResp)
           ELSE \E rs \in TokenThenValidate(now) :
                    loginSettled("register", op, authRegister(r0, rs[1], rs[2]),
                                 "Registration failed. Please try again.", rs[1], rs[2])

logout ==
    /\ mounted
    /\ UNCHANGED <<mounted, calls>>
    /\ Finish("logout", "logout", refreshTimer, logoutCall(state, localStorage).state,
              logoutCall(state, localStorage).storage, inflight, FALSE, NoResp, NoResp)

refreshAuth ==
    /\ mounted /\ calls < MaxCalls
    /\ calls' = calls + 1
    /\ UNCHANGED mounted
    /\ LET r == refreshAuthCall(state, localStorage, inflight) IN
       Finish("refreshAuth", r.ev, refreshTimer, r.state, r.storage, r.ops, r.started,
              NoResp, NoResp)

\* The timeout of the auto-refresh effect runs refreshAuth().
refreshTimerFires ==
    /\ ~IsNull(refreshTimer)
    /\ now >= Val(refreshTimer)
    /\ UNCHANGED <<mounted, calls>>
    /\ LET r == refreshAuthCall(state, localStorage, inflight) IN
       Finish("refreshTimer", r.ev, Null, r.state, r.storage, r.ops, r.started,
              NoResp, NoResp)

\* The rest of refreshAuth() after `await authAPI.refreshToken(refreshToken)`.
refreshDone ==
    \E op \in inflight, rs \in TokenThenValidate(now) :
        /\ op.kind = "refresh"
        /\ UNCHANGED <<mounted, calls>>
        /\ LET r1 == rs[1]
               r2 == rs[2]
               res == authRefreshToken(Val(op.refreshToken), r1, r2) IN
            IF ~res.threw
            THEN Finish("refreshAuth", "refresh_ok", refreshTimer,
                        AUTH_SUCCESS(state, res.value.user, res.value.token,
                                     res.value.refreshToken),
                        storeUser(storeToken(localStorage, res.value.token,
                                             res.value.refreshToken), res.value.user),
                        inflight \ {op}, FALSE, NoResp, NoResp)
            ELSE Finish("refreshAuth", "refresh_failed", refreshTimer,
                        logoutCall(state, localStorage).state,
                        logoutCall(state, localStorage).storage,
                        inflight \ {op}, FALSE, NoResp, NoResp)

\* The rest of checkAuth() after `await authAPI.validateToken(token)`.
validateDone ==
    \E op \in inflight, r2 \in ValidateResponses :
        /\ op.kind = "validate"
        /\ UNCHANGED <<mounted, calls>>
        /\ LET res == validateToken(r2) IN
           IF ~res.threw
           THEN Finish("checkAuth", "validate_ok", refreshTimer,
                       AUTH_SUCCESS(state, res.value, Val(op.token),
                                    localStorage.refresh_token),
                       localStorage, inflight \ {op}, FALSE, NoResp, NoResp)
           ELSE LET r == refreshAuthCall(state, localStorage, inflight \ {op}) IN
                Finish("checkAuth", r.ev, refreshTimer, r.state, r.storage, r.ops,
                       r.started, NoResp, NoResp)

updateUser ==
    /\ mounted /\ calls < MaxCalls
    /\ ~IsNull(state.user) /\ ~IsNull(state.token)
    /\ calls' = calls + 1
    /\ UNCHANGED mounted
    /\ Finish("updateUser", "update_started", refreshTimer, state, localStorage,
              inflight \cup {Op(FreeId(inflight), "update", Null, state.token)},
              TRUE, NoResp, NoResp)

\* The rest of updateUser() after `await authAPI.updateUser(...)`.
updateDone ==
    \E op \in inflight, r \in UserResponses :
        /\ op.kind = "update"
        /\ UNCHANGED <<mounted, calls>>
        /\ LET res == authUpdateUser(r) IN
           IF ~res.threw
           THEN Finish("updateUser", "update_ok", refreshTimer,
                       USER_UPDATE(state, res.value), storeUser(localStorage, res.value),
                       inflight \ {op}, FALSE, NoResp, NoResp)
           ELSE Finish("updateUser", "update_failed", refreshTimer,
                       AUTH_ERROR(state, IF res.isAuthError THEN res.message
                                         ELSE "Failed to update user profile."),
                       localStorage, inflight \ {op}, FALSE, NoResp, NoResp)

\* The timeout of the clear-error effect dispatches CLEAR_ERROR.
clearErrorFires ==
    /\ errorTimer
    /\ UNCHANGED <<mounted, calls>>
    /\ Finish("clearError", "clear_error", refreshTimer, CLEAR_ERROR(state),
              localStorage, inflight, FALSE, NoResp, NoResp)

\* A minute passes.  A timeout that is due runs before the clock moves on; the
\* 5-second clear-error timeout is always due within the minute.
Tick ==
    /\ mounted
    /\ now < MaxTime
    /\ ~errorTimer
    /\ IF IsNull(refreshTimer) THEN TRUE ELSE now < Val(refreshTimer)
    /\ now' = now + 1
    /\ UNCHANGED <<state, localStorage, inflight, calls, refreshTimer, errorTimer,
                   mounted, autoRefreshed, last, nonAuthVars>>

\* The provider is constructed in a browser whose storage may hold an earlier
\* session: a token, a refresh token and the serialized user.
StoredTokens == JwtTokens \cup {GarbageToken}
AuthInit ==
    /\ state = initialState
    /\ localStorage \in
          {emptyStorage}
          \cup [auth_token : {Some(t) : t \in StoredTokens},
                refresh_token : {Null, Some("rt1")},
                user_data : {Some(transformUser(CHOOSE u \in WpUsers : u.hasRoles))}]
    /\ inflight = {}
    /\ calls = 0
    /\ refreshTimer = Null
    /\ errorTimer = FALSE
    /\ mounted = FALSE
    /\ now = 0
    /\ autoRefreshed = {}
    /\ last = [handler |-> "init", ev |-> "init", started |-> FALSE, r1 |-> NoResp, r2 |-> NoResp]

AuthNext ==
    \/ Mount
    \/ checkAuth
    \/ login
    \/ loginDone
    \/ register
    \/ registerDone
    \/ logout
    \/ refreshAuth
    \/ refreshTimerFires
    \/ refreshDone
    \/ validateDone
    \/ updateUser
    \/ updateDone
    \/ clearErrorFires
    \/ Tick

(***************************************************************************)
(* Claims about the session (checked under SpecAuth)                       *)
(***************************************************************************)
RefreshesInFlight == {op \in inflight : op.kind = "refresh"}
HasExpiry(tok) == ~IsNull(tok) /\ ~IsNull(decodeToken(Val(tok)))
ExpiryOf(tok) == Val(decodeToken(Val(tok))).exp

\* C2: in every reachable session state, a non-null user implies that the
\* session's token is not expired or that a refresh token is available (in
\* the state or in local storage, where refreshAuth reads it).
C2_UserHasUsableToken ==
    ~IsNull(state.user) =>
        \/ ~IsNull(state.token) /\ ~isTokenExpired(Val(state.token), now)
        \/ ~IsNull(state.refreshToken)
        \/ ~IsNull(localStorage.refresh_token)

\* C3: at most one token refresh request is in flight at any time.
C3_AtMostOneRefreshInFlight == Cardinality(RefreshesInFlight) <= 1

\* C4: whenever the session is authenticated with a token that has an expiry,
\* the refresh timeout is set for (expiry - 5 minutes), or it has already run
\* refreshAuth for that token.
C4_RefreshTimerForEveryToken ==
    (state.isAuthenticated /\ HasExpiry(state.token)) =>
        \/ refreshTimer = Some(ExpiryOf(state.token) - RefreshLead)
        \/ state.token \in autoRefreshed

\* C5: when a token refresh fails, or no refresh token is stored when a
\* refresh is requested, the stored token, refresh token and user are removed,
\* the in-memory state is the initial state, and no further refresh is
\* started or scheduled by it.
C5_RefreshFailureLogsOut ==
    last.ev \in {"refresh_failed", "refresh_no_token"} =>
        /\ state = initialState
        /\ localStorage = emptyStorage
        /\ ~last.started
        /\ IsNull(refreshTimer)
C5_Witness ==
    /\ last.ev = "refresh_failed"
    /\ last.handler = "refreshAuth"
    /\ state = initialState

\* C15: after logout the three keys are gone from local storage and the
\* in-memory session is the initial anonymous state, whatever the session was
\* before.
C15_LogoutClearsSession ==
    last.handler = "logout" =>
        /\ localStorage = emptyStorage
        /\ state = initialState

\* A logout of a session whose token the refresh timer had already renewed.
C15_Witness ==
    /\ last.handler = "logout"
    /\ autoRefreshed # {}
    /\ localStorage = emptyStorage
    /\ state = initialState

\* C21: an authenticated session loses its authentication only in a logout or
\* in a refresh that failed or found no refresh token, and the completion of
\* a profile update, successful or not, leaves token, refresh token and
\* authentication as they were.
C21_OnlyLogoutOrRefreshFailureDestroys ==
    [][/\ (state.isAuthenticated /\ ~state'.isAuthenticated) =>
              \/ last'.handler = "logout"
              \/ last'.ev \in {"refresh_failed", "refresh_no_token"}
       /\ (state.isAuthenticated /\ last'.ev \in {"update_ok", "update_failed"}) =>
              /\ state'.isAuthenticated
              /\ state'.token = state.token
              /\ state'.refreshToken = state.refreshToken]_vars

\* C22: what happens next after a logout, unless it is a new call of login
\* or register, leaves the session without user and token and not
\* authenticated and local storage without the three keys; so does in
\* particular the completion of a request that was in flight at the logout.
C22_LogoutIsFinal ==
    [][(last.handler = "logout"
        /\ last'.ev \notin {"login_started", "register_started"}) =>
           /\ IsNull(state'.user) /\ IsNull(state'.token) /\ ~state'.isAuthenticated
           /\ localStorage' = emptyStorage]_vars

\* C25: when the provider is mounted and no request is in flight, the token
\* and the user of the state are the stored auth_token and user_data.
C25_StateAgreesWithStorage ==
    (mounted /\ inflight = {}) =>
        /\ state.token = localStorage.auth_token
        /\ state.user = localStorage.user_data

\* C28: isAuthenticated is true exactly when user and token are both
\* non-null.
C28_AuthenticatedIffUserAndToken ==
    state.isAuthenticated <=> (~IsNull(state.user) /\ ~IsNull(state.token))

\* A profile update that completed after the session had ended put a user
\* back.
C28_Witness ==
    /\ last.ev = "update_ok"
    /\ ~IsNull(state.user) /\ IsNull(state.token)
    /\ ~state.isAuthenticated

\* C29: while an error message is recorded the 5-second timeout is pending,
\* so that no minute of the clock passes with the message still there, and
\* the timeout's CLEAR_ERROR changes the error and no other session field nor
\* local storage.
C29_ErrorClearedAfterDelay ==
    [][/\ ~IsNull(state'.error) => errorTimer'
       /\ now' # now => IsNull(state.error)
       /\ last'.handler = "clearError" =>
              /\ state' = [state EXCEPT !.error = Null]
              /\ localStorage' = localStorage]_vars

\* The timeout cleared the error of an anonymous session.
C29_Witness ==
    /\ last.handler = "clearError"
    /\ IsNull(state.error)
    /\ ~state.isLoading /\ ~state.isAuthenticated

\* C6: after a login that the server rejected, the session is anonymous, not
\* loading, and its error is a non-empty message: the message of the server's
\* error payload when it has one.
ServerMessage(resp) == ~IsNull(resp.message) /\ resp.message # Some("")
C6_RejectedLoginRecordsError ==
    (last.handler = "login" /\ last.ev = "failed" /\ last.r1.kind = "http_error") =>
        /\ IsNull(state.user) /\ IsNull(state.token)
        /\ ~state.isAuthenticated /\ ~state.isLoading
        /\ ~IsNull(state.error) /\ state.error # Some("")
        /\ ServerMessage(last.r1) => state.error = last.r1.message
C6_Witness ==
    /\ last.handler = "login" /\ last.ev = "failed" /\ last.r1.kind = "http_error"
    /\ ServerMessage(last.r1)
    /\ state.error = last.r1.message

Post(i, s, t, st) ==
    [id |-> i, slug |-> s, title |-> t, sticky |-> st,
     excerpt |-> <<"<", "a", ">", "a", " ", "a">>, featuredLink |-> FALSE, embedded |-> Null]

\* The published posts, newest first, and the slugs a page may ask for.
UpstreamPosts ==
    << Post(2, "second-post", "Second post", FALSE),
       Post(1, "hello-world", "Hello world", TRUE) >>
Slugs == {"hello-world", "no-such-post"}
PresentUpstream(slug) == \E i \in DOMAIN UpstreamPosts : UpstreamPosts[i].slug = slug

\* A request to the posts collection: the query string.
Endpoint(slug, page, perPage) == [slug |-> slug, page |-> page, per_page |-> perPage]

Min(a, b) == IF a < b THEN a ELSE b

\* The list WordPress answers with: the posts the slug filter keeps, then the
\* requested page of them.
Matching(endpoint) ==
    IF IsNull(endpoint.slug) THEN UpstreamPosts
    ELSE SelectSeq(UpstreamPosts, LAMBDA p : p.slug = Val(endpoint.slug))
WordPress(endpoint) ==
    LET all == Matching(endpoint)
        from == (endpoint.page - 1) * endpoint.per_page + 1
        to == Min(endpoint.page * endpoint.per_page, Len(all))
    IN  SubSeq(all, from, to)
WPTotal(endpoint) == Len(Matching(endpoint))
WPTotalPages(endpoint) == (WPTotal(endpoint) + endpoint.per_page - 1) \div endpoint.per_page

\* What one fetch() meets: the network fails, or a response arrives with a
\* status, a body that parses as JSON or does not, and the X-WP-* headers or
\* none (a proxy may strip them).
Wire(k, st, j, h) == [kind |-> k, status |-> st, jsonOk |-> j, headers |-> h]
NoWire == Wire("none", 0, FALSE, FALSE)
WireOutcomes ==
    { Wire("network", 0, FALSE, FALSE),
      Wire("http", 500, FALSE, FALSE),
      Wire("http", 200, FALSE, FALSE),
      Wire("http", 200, TRUE, FALSE),
      Wire("http", 200, TRUE, TRUE) }
responseOk(wire) == wire.kind = "http" /\ wire.status \in 200..299
Succeeds(wire) == responseOk(wire) /\ wire.jsonOk

(***************************************************************************)
(* The content gateway: apiRequest and postsAPI                            *)
(***************************************************************************)
\* An APIResponse, or the exception that left the function (threw).
APIResponse(d, e, tp, t) ==
    [threw |-> FALSE, data |-> d, error |-> e, totalPages |-> tp, total |-> t]
Thrown(msg) ==
    [threw |-> TRUE, data |-> Null, error |-> Some(msg), totalPages |-> Null, total |-> Null]

\* The message of the Error the catch block receives.
errorMessage(wire) ==
    IF wire.kind = "network" THEN "Failed to fetch"
    ELSE IF ~responseOk(wire) THEN "WordPress API Error: 500 Internal Server Error"
    ELSE "Unexpected token < in JSON at position 0"

\* Number.prototype.toString and parseInt on decimal strings (sequences of
\* characters): parseInt reads the leading digits and gives NaN without one.
Digits == <<"0", "1", "2", "3", "4", "5", "6", "7", "8", "9">>
DigitValue(c) == (CHOOSE d \in DOMAIN Digits : Digits[d] = c) - 1
IsDigit(c) == \E d \in DOMAIN Digits : Digits[d] = c

RECURSIVE toString(_)
toString(n) ==
    IF n < 10 THEN <<Digits[n + 1]>>
    ELSE toString(n \div 10) \o <<Digits[(n % 10) + 1]>>

RECURSIVE parseDigits(_, _)
parseDigits(str, acc) ==
    IF str = <<>> \/ ~IsDigit(Head(str)) THEN acc
    ELSE parseDigits(Tail(str), acc * 10 + DigitValue(Head(str)))

parseIntFirstDigit(str) ==
    IF str = <<>> \/ ~IsDigit(Head(str)) THEN "NaN" ELSE DigitValue(Head(str))

parseInt(str) ==
    IF str = <<>> \/ ~IsDigit(Head(str)) THEN "NaN" ELSE parseDigits(str, 0)

\* What fetch resolves with: the status and body of wire, and the X-WP-* header
\* strings (null when the response does not carry them).
FetchResponse(wire, body, xTotalPages, xTotal) ==
    [wire |-> wire, body |-> body, xTotalPages |-> xTotalPages, xTotal |-> xTotal]

\* WordPress answers the query and states its counts in the headers.
WordPressFetch(endpoint, wire) ==
    FetchResponse(wire, WordPress(endpoint),
                  IF wire.headers THEN Some(toString(WPTotalPages(endpoint))) ELSE Null,
                  IF wire.headers THEN Some(toString(WPTotal(endpoint))) ELSE Null)

\* parseInt(response.headers.get(name) || fallback)
headerOr(header, fallback) ==
    parseInt(IF IsNull(header) \/ Val(header) = <<>> THEN fallback ELSE Val(header))

\* apiRequest from the point where fetch has settled.
apiRequestOf(response) ==
    IF Succeeds(response.wire) THEN
        APIResponse(Some(response.body), Null,
                    Some(headerOr(response.xTotalPages, <<"1">>)),
                    Some(headerOr(response.xTotal, <<"0">>)))
    ELSE APIResponse(Null, Some(errorMessage(response.wire)), Null, Null)

apiRequestRethrows(endpoint, wire) ==
    IF Succeeds(wire) THEN apiRequestOf(WordPressFetch(endpoint, wire))
    ELSE Thrown(errorMessage(wire))

apiRequest(endpoint, wire) == apiRequestOf(WordPressFetch(endpoint, wire))

\* The parameter objects the pages pass to usePosts.
Params(page, perPage) == [page |-> page, per_page |-> perPage]
ParamsSet == {Params(Null, Null), Params(Some(2), Some(1))}

postsEndpoint(params) ==
    Endpoint(Null, Val(OrElse(params.page, Some(1))), Val(OrElse(params.per_page, Some(10))))
slugEndpointUnfiltered(slug) == Endpoint(Null, 1, 10)
slugEndpoint(slug) == Endpoint(Some(slug), 1, 10)

getPosts(params, wire) == apiRequest(postsEndpoint(params), wire)

getPostBySlug(slug, wire) ==
    LET response == apiRequest(slugEndpoint(slug), wire)
    IN  IF response.threw THEN response
        ELSE IF ~IsNull(response.data) /\ Len(Val(response.data)) > 0
             THEN APIResponse(Some(Val(response.data)[1]), Null, Null, Null)
             ELSE APIResponse(Null, Some("Post not found"), Null, Null)

(***************************************************************************)
(* wpUtils and the transforms.  Texts are sequences of characters.         *)
(***************************************************************************)
Texts == UNION {[1..n -> {"a", " ", "<", ">"}] : n \in 0..MaxText}

\* Texts with HTML entity references in them: up to two pieces, each a
\* letter, a space or the reference &lt;
EntityTexts ==
    LET pieces == {<<>>, <<"a">>, <<" ">>, <<"&", "l", "t", ";">>}
    IN  {p \o q : p \in pieces, q \in pieces}

\* content.replace(/<[^>]*>/g, ''): from the left, every "<" that has a ">"
\* after it is removed together with everything up to the first such ">".
RECURSIVE StripTags(_)
StripTags(s) ==
    IF s = <<>> THEN <<>>
    ELSE IF Head(s) = "<" /\ \E j \in 2..Len(s) : s[j] = ">"
         THEN LET close == CHOOSE j \in 2..Len(s) :
                               s[j] = ">" /\ \A k \in 2..(j - 1) : s[k] # ">"
              IN  StripTags(SubSeq(s, close + 1, Len(s)))
         ELSE <<Head(s)>> \o StripTags(Tail(s))

\* String.prototype.trim
RECURSIVE trim(_)
trim(s) ==
    IF s = <<>> THEN s
    ELSE IF Head(s) = " " THEN trim(Tail(s))
    ELSE IF s[Len(s)] = " " THEN trim(SubSeq(s, 1, Len(s) - 1))
    ELSE s

Ellipsis == <<".", ".", ".">>

createExcerptNeverEllipsis(content, length) ==
    LET cleanText == StripTags(content)
    IN  IF Len(cleanText) > length
        THEN trim(SubSeq(cleanText, 1, length))
        ELSE cleanText

createExcerpt(content, length) ==
    LET cleanText == StripTags(content)
    IN  IF Len(cleanText) > length
        THEN trim(SubSeq(cleanText, 1, length)) \o Ellipsis
        ELSE cleanText

\* The default length of createExcerpt.
ExcerptLength == 160

\* A term of _embedded['wp:term'].
Term(i, n, tax) == [id |-> i, name |-> n, slug |-> n, taxonomy |-> tax]
\* The post with _links['wp:featuredmedia'] present or not, and its _embedded.
Embed(post, link, embedded) ==
    [post EXCEPT !.featuredLink = link, !.embedded = embedded]

getFeaturedImage(post) ==
    IF post.featuredLink /\ ~IsNull(post.embedded) /\ ~IsNull(Val(post.embedded).featuredmedia)
    THEN LET media == Val(Val(post.embedded).featuredmedia)
         IN  Some([url |-> media.source_url,
                   alt |-> IF media.alt_text = "" THEN post.title ELSE media.alt_text])
    ELSE Null

getAuthor(post) ==
    IF ~IsNull(post.embedded) THEN Val(post.embedded).author ELSE Null

\* embedded?.['wp:term']?.[n], filtered by taxonomy
termList(post, n, taxonomy) ==
    IF ~IsNull(post.embedded) /\ ~IsNull(Val(post.embedded).terms)
       /\ Len(Val(Val(post.embedded).terms)) >= n
    THEN SelectSeq(Val(Val(post.embedded).terms)[n], LAMBDA term : term.taxonomy = taxonomy)
    ELSE <<>>
getCategories(post) == termList(post, 1, "category")
getTagsFromFirstList(post) == termList(post, 1, "post_tag")
getTags(post) == termList(post, 2, "post_tag")

TermRef(term) == [name |-> term.name, slug |-> term.slug, id |-> term.id]

(***************************************************************************)
(* Server-side lookups (server-api.ts)                                     *)
(***************************************************************************)
\* The Article view-model (content and date, which are copied like title,
\* are left out).
transformPost(post) ==
    LET featuredImage == getFeaturedImage(post)
        author == getAuthor(post)
        categories == getCategories(post)
        tags == getTags(post)
    IN  [id |-> post.id,
         title |-> post.title,
         excerpt |-> createExcerpt(post.excerpt, ExcerptLength),
         slug |-> post.slug,
         featuredImage |-> featuredImage,
         category |-> IF Len(categories) > 0 THEN Some(TermRef(categories[1])) ELSE Null,
         author |-> IF ~IsNull(author)
                    THEN Some([name |-> Val(author).name, slug |-> Val(author).slug,
                               id |-> Val(author).id,
                               avatar |-> OrElse(Val(author).avatar96, Val(author).avatar48)])
                    ELSE Null,
         tags |-> [i \in DOMAIN tags |-> TermRef(tags[i])],
         isSticky |-> post.sticky]

\* serverFetch returns the parsed body or throws.
serverFetch(endpoint, wire) ==
    IF Succeeds(wire) THEN [threw |-> FALSE, body |-> WordPress(endpoint)]
    ELSE [threw |-> TRUE, body |-> <<>>]

serverGetPostBySlug(slug, wire) ==
    LET posts == serverFetch(slugEndpoint(slug), wire)
    IN  IF posts.threw THEN Null
        ELSE IF Len(posts.body) > 0 THEN Some(transformPost(posts.body[1]))
        ELSE Null

\* What a server-side fetch meets: its 10-second abort timer cuts it off, or
\* a response arrives; serverFetch does not read the headers.
ServerWireOutcomes ==
    { Wire("timeout", 0, FALSE, FALSE),
      Wire("http", 500, FALSE, FALSE),
      Wire("http", 200, FALSE, FALSE),
      Wire("http", 200, TRUE, FALSE) }

(***************************************************************************)
(* The data hooks (useWordPress.ts) over the SWR cache                     *)
(***************************************************************************)
Hooks == 1..MaxHooks

\* Cache keys: ['posts', params] and ['post', slug].
Key(name, params, slug) ==
    [name |-> name, page |-> params.page, per_page |-> params.per_page, slug |-> slug]
PostsKey(params) == Key("posts", params, "")
PostKey(slug) == Key("post", Params(Null, Null), slug)
Keys == {PostsKey(p) : p \in ParamsSet} \cup {PostKey(s) : s \in Slugs}
ParamsOf(key) == Params(key.page, key.per_page)

\* The fetcher the hook hands to useSWR for a key.
Fetcher(key, wire) ==
    IF key.name = "posts" THEN getPosts(ParamsOf(key), wire)
    ELSE getPostBySlug(key.slug, wire)

Hook(m, k, a) == [mounted |-> m, key |-> k, awaits |-> a]
Unmounted == Hook(FALSE, Null, Null)
CacheEntry(d, e) == [data |-> d, error |-> e]

RequestsFor(key) == {r \in requests : r.key = key}
FreeRequestId == CHOOSE i \in 1..(MaxHooks + 1) : \A r \in requests : r.id # i

\* Components render in order: the next hook to mount is the lowest free one.
Mounts(h) == ~hooks[h].mounted /\ \A g \in Hooks : g < h => hooks[g].mounted

\* Calls the fetcher for the key: one fetch() leaves the browser.
startRequest(h, key) ==
    LET id == FreeRequestId
    IN  /\ requests' = requests \cup {[id |-> id, key |-> key]}
        /\ fetchCount' = [fetchCount EXCEPT ![key] = @ + 1]
        /\ FETCH' = [FETCH EXCEPT ![key] = "inflight"]
        /\ hooks' = [hooks EXCEPT ![h] = Hook(TRUE, Some(key), Some(id))]

\* A component renders useSWR(key, fetcher) for the first time.  A null key
\* fetches nothing.  Otherwise the hook revalidates with deduplication: it
\* calls the fetcher only if the key has no request marker, and else awaits
\* the request the marker holds.
useSWR(h, key) ==
    /\ Mounts(h)
    /\ IF IsNull(key) THEN
            /\ hooks' = [hooks EXCEPT ![h] = Hook(TRUE, Null, Null)]
            /\ UNCHANGED <<FETCH, requests, fetchCount>>
       ELSE IF FETCH[Val(key)] = "none" THEN startRequest(h, Val(key))
       ELSE IF FETCH[Val(key)] = "inflight" THEN
            /\ hooks' = [hooks EXCEPT ![h] =
                            Hook(TRUE, key, Some((CHOOSE r \in RequestsFor(Val(key)) : TRUE).id))]
            /\ UNCHANGED <<FETCH, requests, fetchCount>>
       ELSE /\ hooks' = [hooks EXCEPT ![h] = Hook(TRUE, key, Null)]
            /\ UNCHANGED <<FETCH, requests, fetchCount>>
    /\ UNCHANGED <<cache, lastWire, ssr, nonDataVars>>

\* A hook that calls its fetcher on every mount, without the cache's marker.
usePostsWithoutDedupe(h, params) ==
    /\ Mounts(h)
    /\ startRequest(h, PostsKey(params))
    /\ UNCHANGED <<cache, lastWire, ssr, nonDataVars>>

usePosts(h, params) == useSWR(h, Some(PostsKey(params)))

usePost(h, slug) == useSWR(h, IF slug = "" THEN Null ELSE Some(PostKey(slug)))

\* The fetch() of a request settles and the fetcher returns (or throws).  The
\* cache stores a returned value as the key's data and keeps the marker for
\* the deduping interval; a thrown error is stored as the key's error and the
\* marker is dropped at once.
fetchSettles(r, wire) ==
    LET res == Fetcher(r.key, wire)
    IN  /\ r \in requests
        /\ requests' = requests \ {r}
        /\ cache' = [cache EXCEPT ![r.key] =
                        IF res.threw THEN CacheEntry(@.data, res.error)
                        ELSE CacheEntry(Some(res), Null)]
        /\ FETCH' = [FETCH EXCEPT ![r.key] = IF res.threw THEN "none" ELSE "settled"]
        /\ hooks' = [h \in Hooks |->
                        IF hooks[h].awaits = Some(r.id)
                        THEN [hooks[h] EXCEPT !.awaits = Null] ELSE hooks[h]]
        /\ lastWire' = [lastWire EXCEPT ![r.key] = Some(wire)]
        /\ UNCHANGED <<fetchCount, ssr, nonDataVars>>

\* The deduping interval of a settled request ends: the marker is deleted.
dedupingIntervalEnds(key) ==
    /\ FETCH[key] = "settled"
    /\ FETCH' = [FETCH EXCEPT ![key] = "none"]
    /\ UNCHANGED <<hooks, cache, requests, fetchCount, lastWire, ssr, nonDataVars>>

\* What usePosts and usePost return to the component.
usePostsReturn(key) ==
    LET entry == cache[key]
        data == entry.data
    IN  [posts |-> IF IsNull(data) THEN Null ELSE Val(data).data,
         totalPages |-> IF IsNull(data) THEN Null ELSE Val(data).totalPages,
         total |-> IF IsNull(data) THEN Null ELSE Val(data).total,
         isLoading |-> FETCH[key] = "inflight" /\ IsNull(data),
         error |-> IF ~IsNull(entry.error) THEN entry.error
                   ELSE IF IsNull(data) THEN Null ELSE Val(data).error]

\* The post page is rendered on the server and looks its post up by slug.
PostPage(slug, wire) ==
    /\ ssr' = [called |-> TRUE, slug |-> slug, wire |-> wire,
               result |-> serverGetPostBySlug(slug, wire)]
    /\ UNCHANGED <<hooks, cache, FETCH, requests, fetchCount, lastWire, nonDataVars>>

DataInit ==
    /\ hooks = [h \in Hooks |-> Unmounted]
    /\ cache = [k \in Keys |-> CacheEntry(Null, Null)]
    /\ FETCH = [k \in Keys |-> "none"]
    /\ requests = {}
    /\ fetchCount = [k \in Keys |-> 0]
    /\ lastWire = [k \in Keys |-> Null]
    /\ ssr = [called |-> FALSE, slug |-> "", wire |-> NoWire, result |-> Null]

DataNext ==
    \/ \E h \in Hooks, params \in ParamsSet : usePosts(h, params)
    \/ \E h \in Hooks, slug \in Slugs \cup {""} : usePost(h, slug)
    \/ \E r \in requests, wire \in WireOutcomes : fetchSettles(r, wire)
    \/ \E key \in Keys : dedupingIntervalEnds(key)
    \/ \E slug \in Slugs, wire \in ServerWireOutcomes : PostPage(slug, wire)


(***************************************************************************)
(* Claims about the content gateway and the data hooks (checked under      *)
(* SpecData)                                                               *)
(***************************************************************************)
Awaiting(h) == hooks[h].mounted /\ ~IsNull(hooks[h].awaits)

\* C1: two hooks that ask for the same cache key while the first request is
\* in flight share it: exactly one fetch() for the key is in flight, both hooks
\* await that request, and no key ever has more than one request in flight.
C1_ConcurrentCallersShareOneCall ==
    /\ \A key \in Keys : Cardinality(RequestsFor(key)) <= 1
    /\ \A h1, h2 \in Hooks :
          (h1 # h2 /\ Awaiting(h1) /\ Awaiting(h2) /\ hooks[h1].key = hooks[h2].key)
          => /\ hooks[h1].awaits = hooks[h2].awaits
             /\ \E r \in requests :
                   /\ RequestsFor(Val(hooks[h1].key)) = {r}
                   /\ hooks[h1].awaits = Some(r.id)

C1_Witness ==
    \E h1, h2 \in Hooks :
        /\ h1 # h2 /\ Awaiting(h1) /\ Awaiting(h2)
        /\ hooks[h1].key = hooks[h2].key
        /\ Val(hooks[h1].key).name = "posts"
        /\ fetchCount[Val(hooks[h1].key)] = 1

\* The number of attempts the architecture notes give for a failed fetch.
RetryCount == 3

\* C8: a content fetch that met a transport error is retried: while fewer than
\* RetryCount attempts have been made for the key, another attempt is under
\* way, and the hook is not left showing the error.
C8_TransportFailureIsRetried ==
    \A key \in Keys :
        ( /\ ~IsNull(lastWire[key])
          /\ Val(lastWire[key]).kind = "network"
          /\ fetchCount[key] < RetryCount
          /\ \E h \in Hooks : hooks[h].key = Some(key) )
        => /\ RequestsFor(key) # {}
           /\ IsNull(usePostsReturn(key).error)

ClientLookedUp(slug) == ~IsNull(lastWire[PostKey(slug)])
ClientFound(slug) ==
    /\ IsNull(cache[PostKey(slug)].error)
    /\ ~IsNull(cache[PostKey(slug)].data)
    /\ LET res == Val(cache[PostKey(slug)].data)
       IN  ~IsNull(res.data) /\ IsNull(res.error) /\ Val(res.data).slug = slug
ClientNotFound(slug) ==
    /\ IsNull(cache[PostKey(slug)].error)
    /\ ~IsNull(cache[PostKey(slug)].data)
    /\ LET res == Val(cache[PostKey(slug)].data)
       IN  IsNull(res.data) /\ res.error = Some("Post not found")
ServerFound == ~IsNull(ssr.result) /\ Val(ssr.result).slug = ssr.slug
ServerNotFound == IsNull(ssr.result)

C24_NotFoundOnlyWhenListEmpty ==
    /\ \A slug \in Slugs :
          (ClientLookedUp(slug) /\ ClientNotFound(slug)) =>
              /\ Succeeds(Val(lastWire[PostKey(slug)]))
              /\ ~PresentUpstream(slug)
    /\ (ssr.called /\ ServerNotFound) =>
          /\ Succeeds(ssr.wire)
          /\ ~PresentUpstream(ssr.slug)

ServerTimeout == 10
\* The longest wait for the backend that is followed.
MaxWait == 11

\* serverPostsAPI.getPosts: the listing with its counts, or the fallback.
serverGetPosts(params, wire) ==
    IF Succeeds(wire) THEN
        [posts |-> [i \in DOMAIN WordPress(postsEndpoint(params)) |->
                        transformPost(WordPress(postsEndpoint(params))[i])],
         totalPages |-> headerOr(WordPressFetch(postsEndpoint(params), wire).xTotalPages, <<"1">>),
         total |-> headerOr(WordPressFetch(postsEndpoint(params), wire).xTotal, <<"0">>)]
    ELSE [posts |-> <<>>, totalPages |-> 1, total |-> 0]

\* A page-data function waiting for the backend: elapsed counts the seconds
\* since its fetch began, timer says whether an abort timeout is pending.
ServerCall(fn, slug, params, st, el, tm, res) ==
    [fn |-> fn, slug |-> slug, params |-> params, status |-> st,
     elapsed |-> el, timer |-> tm, result |-> res]

\* What the awaited function returns once its fetch has met wire.
serverReturn(call, wire) ==
    IF call.fn = "getPostBySlug" THEN Some(serverGetPostBySlug(call.slug, wire))
    ELSE Some(serverGetPosts(call.params, wire))

\* PostPage awaits serverPostsAPI.getPostBySlug: serverFetch arms its abort
\* timeout and calls fetch with the controller's signal.
serverGetPostBySlugStarts(slug) ==
    /\ serverCall.status # "waiting"
    /\ serverCall' = ServerCall("getPostBySlug", slug, Params(Null, Null), "waiting", 0, TRUE, Null)
    /\ UNCHANGED nonServerVars

\* getHomepageData awaits serverPostsAPI.getPosts: it calls fetch directly,
\* with no signal and no timeout.
serverGetPostsStarts(params) ==
    /\ serverCall.status # "waiting"
    /\ serverCall' = ServerCall("getPosts", "", params, "waiting", 0, FALSE, Null)
    /\ UNCHANGED nonServerVars

\* The backend answers, or the connection fails: the fetch settles, a pending
\* abort timeout is cleared, and the function returns.
serverFetchSettles(wire) ==
    /\ serverCall.status = "waiting"
    /\ serverCall' = [serverCall EXCEPT !.status = "returned", !.timer = FALSE,
                                        !.result = serverReturn(serverCall, wire)]
    /\ UNCHANGED nonServerVars

\* The abort timeout runs: fetch rejects with an AbortError, serverFetch throws
\* 'WordPress API request timeout' and the function returns its fallback.
serverAbortTimerFires ==
    /\ serverCall.status = "waiting"
    /\ serverCall.timer
    /\ serverCall.elapsed >= ServerTimeout
    /\ serverCall' = [serverCall EXCEPT !.status = "returned", !.timer = FALSE,
                         !.result = serverReturn(serverCall, Wire("timeout", 0, FALSE, FALSE))]
    /\ UNCHANGED nonServerVars

\* A second passes with the backend silent.  A timeout that is due runs first.
serverWaits ==
    /\ serverCall.status = "waiting"
    /\ serverCall.elapsed < MaxWait
    /\ ~(serverCall.timer /\ serverCall.elapsed >= ServerTimeout)
    /\ serverCall' = [serverCall EXCEPT !.elapsed = @ + 1]
    /\ UNCHANGED nonServerVars

ServerInit == serverCall = ServerCall("none", "", Params(Null, Null), "idle", 0, FALSE, Null)

ServerNext ==
    \/ \E slug \in Slugs : serverGetPostBySlugStarts(slug)
    \/ \E params \in ParamsSet : serverGetPostsStarts(params)
    \/ \E wire \in WireOutcomes : serverFetchSettles(wire)
    \/ serverAbortTimerFires
    \/ serverWaits

\* C11: a server-side fetch that prepares page content never waits for the
\* backend longer than the timeout: by then it has been aborted and the
\* page-data function has returned its fallback.
C11_ServerFetchBoundedByTimeout ==
    serverCall.status = "waiting" => serverCall.elapsed <= ServerTimeout

(***************************************************************************)
(* Calls of the pure functions on inputs drawn from bounded sets           *)
(***************************************************************************)
\* A component calls wpUtils.createExcerpt(content, length).
createExcerptReturns ==
    /\ utilCall.fn = "createExcerpt"
    /\ IsNull(utilReturn)
    /\ utilReturn' = Some(createExcerpt(utilCall.content, utilCall.length))
    /\ UNCHANGED <<utilCall, nonUtilVars>>

\* The excerpt it got is passed to createExcerpt again, with the same length.
createExcerptAgain ==
    /\ utilCall.fn = "createExcerpt"
    /\ ~utilCall.again
    /\ ~IsNull(utilReturn)
    /\ utilCall' = [utilCall EXCEPT !.content = Val(utilReturn), !.again = TRUE]
    /\ utilReturn' = Null
    /\ UNCHANGED nonUtilVars

\* C12 as stated: applying createExcerpt to an excerpt, with the same length,
\* returns that excerpt.
C12_ExcerptIdempotent ==
    (utilCall.fn = "createExcerpt" /\ utilCall.again /\ ~IsNull(utilReturn))
    => Val(utilReturn) = utilCall.content

\* C20: createExcerpt returns the tag-stripped text unchanged when it is no
\* longer than the length, and otherwise its first length characters, trimmed,
\* followed by an ellipsis; so the result ends in an added ellipsis exactly
\* when the text was cut.
C20_EllipsisIffTruncated ==
    (utilCall.fn = "createExcerpt" /\ ~utilCall.again /\ ~IsNull(utilReturn))
    => LET stripped == StripTags(utilCall.content)
           out == Val(utilReturn)
       IN  /\ \A i \in DOMAIN stripped :
                 stripped[i] = "<" => \A j \in (i + 1)..Len(stripped) : stripped[j] # ">"
           /\ IF Len(stripped) <= utilCall.length
              THEN out = stripped
              ELSE /\ Len(out) >= 3
                   /\ SubSeq(out, Len(out) - 2, Len(out)) = Ellipsis
                   /\ SubSeq(out, 1, Len(out) - 3) =
                          trim(SubSeq(stripped, 1, utilCall.length))

\* An "&" that does not begin a whole entity reference.
HasPartialEntity(str) ==
    \E i \in DOMAIN str :
        /\ str[i] = "&"
        /\ ~(i + 3 <= Len(str) /\ SubSeq(str, i, i + 3) = <<"&", "l", "t", ";">>)

\* C30: the excerpt of a text whose entity references are whole holds no
\* part of an entity reference.
C30_NoPartialEntity ==
    (utilCall.fn = "createExcerpt" /\ ~utilCall.again /\ ~IsNull(utilReturn)
     /\ ~HasPartialEntity(utilCall.content))
    => ~HasPartialEntity(Val(utilReturn))

C20_Witness ==
    /\ utilCall.fn = "createExcerpt" /\ ~utilCall.again /\ ~IsNull(utilReturn)
    /\ StripTags(utilCall.content) # utilCall.content
    /\ Len(StripTags(utilCall.content)) > utilCall.length
    /\ Val(utilReturn) = <<"a">> \o Ellipsis

\* Posts whose response lacks some or all of _embedded: the featured media
\* (with or without alt text), the author, the term lists.
PostInputs ==
    LET medias == {Null} \cup {Some([source_url |-> "https://cdn.example/hello.jpg",
                                     alt_text |-> alt]) : alt \in {"", "Hello"}}
        authors == {Null, Some([id |-> 7, name |-> "Ada", slug |-> "ada", avatar96 |-> Null,
                                avatar48 |-> Some("https://cdn.example/48.png")])}
        termLists ==
            { Null, Some(<<>>),
              Some(<< <<Term(3, "news", "category"), Term(4, "react", "post_tag")>> >>),
              Some(<< <<Term(3, "news", "category")>>,
                      <<Term(5, "old", "category"), Term(4, "react", "post_tag")>> >>) }
        embeddeds ==
            {Null} \cup
            { Some([featuredmedia |-> media, author |-> author, terms |-> terms]) :
                media \in medias, author \in authors, terms \in termLists }
    IN  { Embed(Post(1, "hello-world", "Hello world", TRUE), link, embedded) :
            link \in BOOLEAN, embedded \in embeddeds }

\* A caller maps a post of a response through transformPost.
transformPostReturns ==
    /\ utilCall.fn = "transformPost"
    /\ IsNull(utilReturn)
    /\ utilReturn' = Some(transformPost(utilCall.post))
    /\ UNCHANGED <<utilCall, nonUtilVars>>

\* The mock backend of the test suite: per_page posts, and the headers
\* X-WP-TotalPages: 10 and X-WP-Total: 100 unless the response lost them.
MockFetch(endpoint, wire) ==
    FetchResponse(wire,
                  [i \in 1..endpoint.per_page |->
                      Post(i, "test-post-" \o ToString(i), "Test Post " \o ToString(i), FALSE)],
                  IF wire.headers THEN Some(toString(10)) ELSE Null,
                  IF wire.headers THEN Some(toString(100)) ELSE Null)

\* postsAPI.getPosts(params) against the mock backend.
getPostsReturns ==
    /\ utilCall.fn = "getPosts"
    /\ IsNull(utilReturn)
    /\ utilReturn' = Some(apiRequestOf(MockFetch(postsEndpoint(utilCall.params), utilCall.wire)))
    /\ UNCHANGED <<utilCall, nonUtilVars>>

\* authAPI.isTokenExpired(token) called at a time of the clock.
isTokenExpiredReturns ==
    /\ utilCall.fn = "isTokenExpired"
    /\ IsNull(utilReturn)
    /\ utilReturn' = Some(isTokenExpired(utilCall.token, utilCall.currentTime))
    /\ UNCHANGED <<utilCall, nonUtilVars>>

UtilInit ==
    /\ utilCall \in
          {[fn |-> "createExcerpt", content |-> t, length |-> n, again |-> FALSE] :
                    t \in Texts \cup EntityTexts, n \in 0..MaxBudget}
          \cup {[fn |-> "transformPost", post |-> post] : post \in PostInputs}
          \cup {[fn |-> "getPosts", params |-> params, wire |-> wire] :
                    params \in ParamsSet \cup {Params(Some(2), Some(5))},
                    wire \in WireOutcomes}
          \cup {[fn |-> "isTokenExpired", token |-> token, currentTime |-> t] :
                    token \in {Token(1, e) : e \in 0..MaxBudget} \cup {GarbageToken},
                    t \in 0..MaxBudget}
    /\ utilReturn = Null

\* No pure function is being called.
UtilIdle ==
    /\ utilCall = [fn |-> "none"]
    /\ utilReturn = Null

UtilNext ==
    \/ createExcerptReturns
    \/ createExcerptAgain
    \/ transformPostReturns
    \/ getPostsReturns
    \/ isTokenExpiredReturns

\* C14: isTokenExpired returns true for a token whose decoded exp is earlier
\* than the current time, false for a token whose exp is later, and true for
\* a token that cannot be decoded.
C14_ExpiredIffExpBeforeNow ==
    (utilCall.fn = "isTokenExpired" /\ ~IsNull(utilReturn)) =>
        LET token == utilCall.token
            expired == Val(utilReturn)
        IN  /\ (token.decodable /\ token.exp < utilCall.currentTime) => expired
            /\ (token.decodable /\ token.exp > utilCall.currentTime) => ~expired
            /\ ~token.decodable => expired

C14_Witness ==
    /\ utilCall.fn = "isTokenExpired"
    /\ utilCall.token.decodable
    /\ utilCall.token.exp > utilCall.currentTime
    /\ utilReturn = Some(FALSE)

\* C16: transformPost returns an article whatever parts of _embedded are
\* missing: without a featured image, author or first term list the article
\* has no featuredImage, author or category, without a second term list its
\* tag list is empty, and id, title, slug, excerpt and sticky flag are those
\* of the post.
C16_TransformPostToleratesMissingEmbedded ==
    (utilCall.fn = "transformPost" /\ ~IsNull(utilReturn))
    => LET post == utilCall.post
           article == Val(utilReturn)
           embedded == post.embedded
           NoTermList(n) ==
               \/ IsNull(embedded)
               \/ IsNull(Val(embedded).terms)
               \/ Len(Val(Val(embedded).terms)) < n
       IN  /\ article.id = post.id /\ article.title = post.title
           /\ article.slug = post.slug /\ article.isSticky = post.sticky
           /\ article.excerpt = <<"a", " ", "a">>
           /\ (IsNull(embedded) \/ IsNull(Val(embedded).featuredmedia))
                 => IsNull(article.featuredImage)
           /\ (IsNull(embedded) \/ IsNull(Val(embedded).author)) => IsNull(article.author)
           /\ NoTermList(1) => IsNull(article.category)
           /\ NoTermList(2) => article.tags = <<>>

C16_Witness ==
    /\ utilCall.fn = "transformPost" /\ ~IsNull(utilReturn)
    /\ ~IsNull(utilCall.post.embedded)
    /\ IsNull(Val(utilCall.post.embedded).author)
    /\ ~IsNull(Val(utilCall.post.embedded).terms)
    /\ Len(Val(Val(utilCall.post.embedded).terms)) = 1
    /\ ~IsNull(Val(utilReturn).category)
    /\ Val(utilReturn).tags = <<>>

\* C19: a successful posts listing returns the items of the response body,
\* and totalPages and total as read from X-WP-TotalPages and X-WP-Total (1 and
\* 0 when a header is missing): page 2 with per_page = 5 against the backend
\* advertising 10 pages returns 5 items and totalPages 10.
C19_ListingCarriesHeaderCounts ==
    (utilCall.fn = "getPosts" /\ ~IsNull(utilReturn) /\ Succeeds(utilCall.wire))
    => LET res == Val(utilReturn)
           perPage == IF IsNull(utilCall.params.per_page) THEN 10
                      ELSE Val(utilCall.params.per_page)
       IN  /\ IsNull(res.error)
           /\ ~IsNull(res.data)
           /\ Len(Val(res.data)) = perPage
           /\ \A i \in 1..perPage : Val(res.data)[i].id = i
           /\ res.totalPages = Some(IF utilCall.wire.headers THEN 10 ELSE 1)
           /\ res.total = Some(IF utilCall.wire.headers THEN 100 ELSE 0)

C19_Witness ==
    /\ utilCall.fn = "getPosts" /\ ~IsNull(utilReturn)
    /\ utilCall.params = Params(Some(2), Some(5))
    /\ Succeeds(utilCall.wire) /\ utilCall.wire.headers
    /\ Len(Val(Val(utilReturn).data)) = 5
    /\ Val(utilReturn).totalPages = Some(10)

(***************************************************************************)
(* Offline reading (useOfflineContent in hooks/usePWA.ts, SaveOfflineButton *)
(* in components/ui/OfflineIndicator.tsx)                                  *)
(***************************************************************************)
\* An article as the offline list holds it, and its URL in the cache.
OfflineArticle(slug) == [slug |-> slug]
ArticleSlugs == {"hello-world", "second-post"}

isArticleOffline(offlineArticles, articleSlug) ==
    \E i \in DOMAIN offlineArticles : offlineArticles[i].slug = articleSlug

\* The lists saveForOffline and removeFromOffline compute.
savedTo(offlineArticles, article) == Append(offlineArticles, article)
removedFromNothing(offlineArticles, articleSlug) == offlineArticles
removedFrom(offlineArticles, articleSlug) ==
    SelectSeq(offlineArticles, LAMBDA article : article.slug # articleSlug)

\* A SaveOfflineButton: its article, the offlineArticles state of its hook,
\* the call its click handler awaits (with the offlineArticles the call
\* closed over, and whether the cache has been written), and as history its
\* last completed calls and the list before its last save.
SaveButton(m, slug, list, pending, closure, cached, done, before) ==
    [mounted |-> m, article |-> slug, offlineArticles |-> list, pending |-> pending,
     closure |-> closure, cached |-> cached, done |-> done, before |-> before]

\* The button is rendered; the hook's effect loads the list from storage.
SaveOfflineButtonMounts(b, slug) ==
    /\ ~saveButtons[b].mounted
    /\ \A c \in 1..(b - 1) : saveButtons[c].mounted
    /\ saveButtons' = [saveButtons EXCEPT ![b] =
                          SaveButton(TRUE, slug, offlineStorage, "none", <<>>, FALSE, <<>>, <<>>)]
    /\ UNCHANGED <<offlineStorage, cacheBucket, nonOfflineVars>>

\* A click: the handler calls removeFromOffline when the button shows the
\* article as saved and saveForOffline when not, unless a call is under way.
handleToggleOffline(b) ==
    LET button == saveButtons[b]
    IN  /\ button.mounted
        /\ button.pending = "none"
        /\ saveButtons' = [saveButtons EXCEPT ![b] =
              [button EXCEPT
                  !.pending = IF isArticleOffline(button.offlineArticles, button.article)
                              THEN "remove" ELSE "save",
                  !.closure = button.offlineArticles,
                  !.cached = FALSE]]
        /\ UNCHANGED <<offlineStorage, cacheBucket, nonOfflineVars>>

\* caches.open and cache.put / cache.delete settle: the bucket is written, or
\* the call throws and leaves list and storage alone.
cacheSettles(b, ok) ==
    LET button == saveButtons[b]
    IN  /\ button.pending # "none"
        /\ ~button.cached
        /\ cacheBucket' =
              IF ~ok THEN cacheBucket
              ELSE IF button.pending = "save" THEN cacheBucket \cup {button.article}
              ELSE cacheBucket \ {button.article}
        /\ saveButtons' = [saveButtons EXCEPT ![b] =
              IF ok THEN [button EXCEPT !.cached = TRUE]
              ELSE [button EXCEPT !.pending = "none"]]
        /\ UNCHANGED <<offlineStorage, nonOfflineVars>>

\* The call continues after its await: it sets the hook's list and writes the
\* same list to local storage.
offlineCallCompletes(b) ==
    LET button == saveButtons[b]
        updated == IF button.pending = "save"
                   THEN savedTo(button.closure, OfflineArticle(button.article))
                   ELSE removedFrom(button.closure, button.article)
    IN  /\ button.pending # "none"
        /\ button.cached
        /\ saveButtons' = [saveButtons EXCEPT ![b] =
              [button EXCEPT
                  !.offlineArticles = updated,
                  !.pending = "none",
                  !.cached = FALSE,
                  !.done = IF button.done = <<>> THEN <<button.pending>>
                           ELSE <<button.done[Len(button.done)], button.pending>>,
                  !.before = IF button.pending = "save" THEN button.closure ELSE @]]
        /\ offlineStorage' = updated
        /\ UNCHANGED <<cacheBucket, nonOfflineVars>>

\* Storage and cache may hold an article saved in an earlier visit.
OfflineInit ==
    /\ saveButtons = [b \in 1..MaxButtons |->
                         SaveButton(FALSE, "", <<>>, "none", <<>>, FALSE, <<>>, <<>>)]
    /\ \E saved \in {{}, {"hello-world"}} :
          /\ cacheBucket = saved
          /\ offlineStorage = IF saved = {} THEN <<>> ELSE <<OfflineArticle("hello-world")>>

\* No save button is rendered.
OfflineIdle == OfflineInit /\ cacheBucket = {}

OfflineNext ==
    \/ \E b \in 1..MaxButtons, slug \in ArticleSlugs : SaveOfflineButtonMounts(b, slug)
    \/ \E b \in 1..MaxButtons : handleToggleOffline(b)
    \/ \E b \in 1..MaxButtons, ok \in BOOLEAN : cacheSettles(b, ok)
    \/ \E b \in 1..MaxButtons : offlineCallCompletes(b)

\* C13: after a completed save the hook reports its article as offline, after
\* a completed removal it does not, and after a save followed by a removal of
\* the article the hook's list is the list it had before the save.
C13_SaveAndRemoveAreInverse ==
    \A b \in 1..MaxButtons :
        LET button == saveButtons[b]
        IN  (button.mounted /\ button.done # <<>>) =>
                /\ button.done[Len(button.done)] = "save"
                      => isArticleOffline(button.offlineArticles, button.article)
                /\ button.done[Len(button.done)] = "remove"
                      => ~isArticleOffline(button.offlineArticles, button.article)
                /\ button.done = <<"save", "remove">>
                      => button.offlineArticles = button.before

\* C23: when no save or removal is under way, the slugs whose pages the
\* cache bucket holds are the slugs of the list in local storage.
C23_CacheMirrorsStoredList ==
    (\A b \in 1..MaxButtons : saveButtons[b].pending = "none") =>
        cacheBucket = {offlineStorage[i].slug : i \in DOMAIN offlineStorage}

C13_Witness ==
    \E b \in 1..MaxButtons :
        /\ saveButtons[b].done = <<"save", "remove">>
        /\ saveButtons[b].before # <<>>
        /\ saveButtons[b].offlineArticles = saveButtons[b].before

(***************************************************************************)
(* Install prompt and connectivity (usePWA in hooks/usePWA.ts, handleInstall *)
(* in components/ui/InstallPrompt.tsx)                                     *)
(***************************************************************************)
\* 'serviceWorker' in navigator && 'PushManager' in window
isSupported == browser.serviceWorker /\ browser.PushManager

\* The components that call usePWA(), each with a hook state of its own.
PwaComponents == {"InstallPrompt", "OfflineIndicator"}

\* A component renders and its hook's effect runs: without support it
\* returns at once; with support it reads the display mode and
\* navigator.onLine and registers the four listeners.
usePWAMounts(c) ==
    /\ ~pwa[c].mounted
    /\ pwa' = [pwa EXCEPT ![c] =
                  IF isSupported
                  THEN [@ EXCEPT !.mounted = TRUE, !.listening = TRUE,
                                 !.isInstalled = browser.standalone,
                                 !.isOnline = browser.onLine]
                  ELSE [@ EXCEPT !.mounted = TRUE]]
    /\ UNCHANGED <<browser, nonPwaVars>>

\* The browser gains or loses its connection and fires 'online' or 'offline'
\* at the window; handleOnline / handleOffline run where they are registered.
connectivityEvent(onLine) ==
    /\ browser.onLine # onLine
    /\ browser' = [browser EXCEPT !.onLine = onLine]
    /\ pwa' = [c \in PwaComponents |->
                  IF pwa[c].listening THEN [pwa[c] EXCEPT !.isOnline = onLine] ELSE pwa[c]]
    /\ UNCHANGED nonPwaVars

\* The browser offers installation, once and again after a dismissed prompt;
\* the registered handlers keep the event.
handleBeforeInstallPrompt ==
    /\ \E c \in PwaComponents : pwa[c].listening
    /\ ~browser.standalone
    /\ ~browser.prompted
    /\ browser' = [browser EXCEPT !.prompted = TRUE]
    /\ pwa' = [c \in PwaComponents |->
                  IF pwa[c].listening
                  THEN [pwa[c] EXCEPT !.deferredPrompt = TRUE, !.canInstall = TRUE]
                  ELSE pwa[c]]
    /\ UNCHANGED nonPwaVars

\* InstallPrompt returns null unless all of this holds.
promptRendered ==
    LET hook == pwa["InstallPrompt"]
    IN  /\ ~hook.isDismissed /\ isSupported /\ ~hook.isInstalled
        /\ hook.canInstall /\ hook.isVisible

\* The 3-second timer of InstallPrompt's effect shows the prompt.
showTimerFires ==
    LET hook == pwa["InstallPrompt"]
    IN  /\ hook.mounted
        /\ hook.canInstall /\ ~hook.isInstalled /\ isSupported
        /\ ~hook.isDismissed /\ ~hook.isVisible
        /\ hook.call # "prompting"
        /\ pwa' = [pwa EXCEPT !["InstallPrompt"].isVisible = TRUE]
        /\ UNCHANGED <<browser, nonPwaVars>>

handleDismiss ==
    /\ promptRendered
    /\ pwa["InstallPrompt"].call # "prompting"
    /\ pwa' = [pwa EXCEPT !["InstallPrompt"].isVisible = FALSE,
                          !["InstallPrompt"].isDismissed = TRUE]
    /\ UNCHANGED <<browser, nonPwaVars>>

\* handleInstall calls installApp: it throws without a captured prompt and
\* otherwise shows the prompt and awaits the user's choice.
installApp ==
    /\ promptRendered
    /\ pwa["InstallPrompt"].call # "prompting"
    /\ pwa' = [pwa EXCEPT !["InstallPrompt"] =
                  IF @.deferredPrompt
                  THEN [@ EXCEPT !.call = "prompting", !.settled = Null]
                  ELSE [@ EXCEPT !.call = "rejected",
                                 !.settled = Some("Installation prompt not available")]]
    /\ browser' = [browser EXCEPT !.userChoice = Null]
    /\ UNCHANGED nonPwaVars

\* The user answers the prompt: installApp clears the captured prompt and
\* returns; being declared Promise<void>, its promise resolves with undefined.
\* handleInstall then hides the component.
userChoiceSettles(outcome) ==
    /\ pwa["InstallPrompt"].call = "prompting"
    /\ browser' = [browser EXCEPT !.userChoice = Some(outcome),
                                  !.prompted = (outcome = "accepted")]
    /\ pwa' = [pwa EXCEPT !["InstallPrompt"] =
                  [@ EXCEPT !.deferredPrompt = FALSE, !.canInstall = FALSE,
                            !.call = "resolved", !.settled = Some("undefined"),
                            !.isVisible = FALSE]]
    /\ UNCHANGED nonPwaVars

\* After an accepted prompt the browser installs the app and fires
\* 'appinstalled'.
handleAppInstalled ==
    /\ browser.userChoice = Some("accepted")
    /\ ~browser.standalone
    /\ browser' = [browser EXCEPT !.standalone = TRUE]
    /\ pwa' = [c \in PwaComponents |->
                  IF pwa[c].listening
                  THEN [pwa[c] EXCEPT !.isInstalled = TRUE, !.canInstall = FALSE,
                                      !.deferredPrompt = FALSE]
                  ELSE pwa[c]]
    /\ UNCHANGED nonPwaVars

\* useState(false), useState(false), useState(true), useState(null), in a
\* browser of any support, connectivity and display mode.
PwaInit ==
    /\ browser \in [serviceWorker : BOOLEAN, PushManager : BOOLEAN, onLine : BOOLEAN,
                    standalone : BOOLEAN, prompted : {FALSE}, userChoice : {Null}]
    /\ pwa = [c \in PwaComponents |->
                 [mounted |-> FALSE, listening |-> FALSE, isInstalled |-> FALSE,
                  canInstall |-> FALSE, isOnline |-> TRUE, deferredPrompt |-> FALSE,
                  isVisible |-> FALSE, isDismissed |-> FALSE,
                  call |-> "none", settled |-> Null]]

\* No component uses the hook.
PwaIdle ==
    /\ PwaInit
    /\ browser.serviceWorker /\ browser.PushManager /\ browser.onLine
    /\ ~browser.standalone

PwaNext ==
    \/ \E c \in PwaComponents : usePWAMounts(c)
    \/ \E onLine \in BOOLEAN : connectivityEvent(onLine)
    \/ handleBeforeInstallPrompt
    \/ showTimerFires
    \/ handleDismiss
    \/ installApp
    \/ \E outcome \in {"accepted", "dismissed"} : userChoiceSettles(outcome)
    \/ handleAppInstalled

\* C17: the isOnline a component gets from the hook is the browser's
\* connectivity: the initial one, and after every online or offline event
\* the one of the latest event.
C17_IsOnlineFollowsConnectivity ==
    \A c \in PwaComponents : pwa[c].mounted => pwa[c].isOnline = browser.onLine

\* C18: when installApp has resolved, the value it resolved with is the
\* user's answer to the prompt, accepted or dismissed.
C18_InstallAppResolvesWithChoice ==
    pwa["InstallPrompt"].call = "resolved"
        => pwa["InstallPrompt"].settled = browser.userChoice

(***************************************************************************)
(* Search box (components/ui/SearchBar.tsx, useSearch in                    *)
(* hooks/useWordPress.ts)                                                   *)
(***************************************************************************)
\* The SWR key of useSearch(query.length > 2 ? query : null, ...): null, or
\* the query.
searchKey(query) == IF Len(query) > 2 THEN Some(query) ELSE Null

\* A keystroke: the input's new value becomes the query, the component
\* renders and useSearch is called with it; for a key without data SWR
\* starts the request.  The value typed over had remained for no pause.
handleInputChange(value) ==
    /\ searchBar.keys < MaxKeys
    /\ searchBar' =
          [query |-> value,
           keys |-> searchBar.keys + 1,
           settled |-> FALSE,
           requests |-> IF IsNull(searchKey(value)) THEN searchBar.requests
                        ELSE searchBar.requests \cup {Val(searchKey(value))},
           typedOver |-> IF searchBar.settled THEN searchBar.typedOver
                         ELSE searchBar.typedOver \cup {searchBar.query},
           remained |-> searchBar.remained]
    /\ UNCHANGED nonSearchVars

\* The user stops typing for longer than a debounce delay: nothing runs.
typingPauses ==
    /\ ~searchBar.settled
    /\ searchBar' = [searchBar EXCEPT !.settled = TRUE,
                                      !.remained = @ \cup {searchBar.query}]
    /\ UNCHANGED nonSearchVars

\* useState('')
SearchInit ==
    searchBar = [query |-> <<>>, keys |-> 0, settled |-> TRUE, requests |-> {},
                 typedOver |-> {}, remained |-> {<<>>}]

SearchNext ==
    \/ \E c \in {"a", "b"} : handleInputChange(Append(searchBar.query, c))
    \/ /\ searchBar.query # <<>>
       /\ handleInputChange(SubSeq(searchBar.query, 1, Len(searchBar.query) - 1))
    \/ typingPauses

\* C26: a search request is issued only for a query value that remained when
\* the typing paused; a value that was only typed over within the debounce
\* window has no request.
C26_SearchIsDebounced ==
    \A query \in searchBar.requests :
        query \in searchBar.typedOver => query \in searchBar.remained

(***************************************************************************)
(* Pagination (store/wordpress.ts)                                         *)
(***************************************************************************)
Max(a, b) == IF a > b THEN a ELSE b

Pagination(currentPage, totalPages, hasNextPage, hasPreviousPage) ==
    [currentPage |-> currentPage, totalPages |-> totalPages,
     hasNextPage |-> hasNextPage, hasPreviousPage |-> hasPreviousPage]

setPagination(currentPage, totalPages) ==
    /\ pagination' = Pagination(currentPage, totalPages,
                                currentPage < totalPages, currentPage > 1)
    /\ UNCHANGED nonPaginationVars

nextPage ==
    /\ LET newPage == Min(pagination.currentPage + 1, pagination.totalPages)
       IN  pagination' = Pagination(newPage, pagination.totalPages,
                                    newPage < pagination.totalPages, newPage > 1)
    /\ UNCHANGED nonPaginationVars

previousPage ==
    /\ LET newPage == Max(pagination.currentPage - 1, 1)
       IN  pagination' = Pagination(newPage, pagination.totalPages,
                                    newPage < pagination.totalPages, newPage > 1)
    /\ UNCHANGED nonPaginationVars

\* The flags are computed from the page asked for, not from the clamped one.
goToPage(page) ==
    /\ pagination' = Pagination(Max(1, Min(page, pagination.totalPages)),
                                pagination.totalPages,
                                page < pagination.totalPages, page > 1)
    /\ UNCHANGED nonPaginationVars

\* currentPage: 1, totalPages: 1, hasNextPage: false, hasPreviousPage: false
PaginationIdle == pagination = Pagination(1, 1, FALSE, FALSE)

\* The store after a first setPagination(c, t) with 1 <= c <= t.
PaginationInit ==
    \E t \in 1..MaxPages : \E c \in 1..t :
        pagination = Pagination(c, t, c < t, c > 1)

PaginationNext ==
    \/ \E t \in 1..MaxPages : \E c \in 1..t : setPagination(c, t)
    \/ nextPage
    \/ previousPage
    \/ \E page \in (-1)..(MaxPages + 1) : goToPage(page)

\* C27: the current page lies in 1..totalPages, hasNextPage says whether it
\* is below totalPages and hasPreviousPage whether it is above 1.
C27_PaginationConsistent ==
    /\ 1 <= pagination.currentPage
    /\ pagination.currentPage <= pagination.totalPages
    /\ pagination.hasNextPage <=> (pagination.currentPage < pagination.totalPages)
    /\ pagination.hasPreviousPage <=> (pagination.currentPage > 1)

(***************************************************************************)
(* Specifications: each component alone, the others at rest                *)
(***************************************************************************)
InitAuth ==
    /\ AuthInit
    /\ DataInit
    /\ ServerInit
    /\ UtilIdle
    /\ OfflineIdle
    /\ PwaIdle
    /\ SearchInit
    /\ PaginationIdle
SpecAuth == InitAuth /\ [][AuthNext]_vars

InitData ==
    /\ AuthInit /\ localStorage = emptyStorage
    /\ DataInit
    /\ ServerInit
    /\ UtilIdle
    /\ OfflineIdle
    /\ PwaIdle
    /\ SearchInit
    /\ PaginationIdle
SpecData == InitData /\ [][DataNext]_vars

InitServer ==
    /\ AuthInit /\ localStorage = emptyStorage
    /\ DataInit
    /\ ServerInit
    /\ UtilIdle
    /\ OfflineIdle
    /\ PwaIdle
    /\ SearchInit
    /\ PaginationIdle
SpecServer == InitServer /\ [][ServerNext]_vars

InitUtil ==
    /\ AuthInit /\ localStorage = emptyStorage
    /\ DataInit
    /\ ServerInit
    /\ UtilInit
    /\ OfflineIdle
    /\ PwaIdle
    /\ SearchInit
    /\ PaginationIdle
SpecUtil == InitUtil /\ [][UtilNext]_vars

InitOffline ==
    /\ AuthInit /\ localStorage = emptyStorage
    /\ DataInit
    /\ ServerInit
    /\ UtilIdle
    /\ OfflineInit
    /\ PwaIdle
    /\ SearchInit
    /\ PaginationIdle
SpecOffline == InitOffline /\ [][OfflineNext]_vars

InitPwa ==
    /\ AuthInit /\ localStorage = emptyStorage
    /\ DataInit
    /\ ServerInit
    /\ UtilIdle
    /\ OfflineIdle
    /\ PwaInit
    /\ SearchInit
    /\ PaginationIdle
SpecPwa == InitPwa /\ [][PwaNext]_vars

InitSearch ==
    /\ AuthInit /\ localStorage = emptyStorage
    /\ DataInit
    /\ ServerInit
    /\ UtilIdle
    /\ OfflineIdle
    /\ PwaIdle
    /\ SearchInit
    /\ PaginationIdle
SpecSearch == InitSearch /\ [][SearchNext]_vars

InitPagination ==
    /\ AuthInit /\ localStorage = emptyStorage
    /\ DataInit
    /\ ServerInit
    /\ UtilIdle
    /\ OfflineIdle
    /\ PwaIdle
    /\ SearchInit
    /\ PaginationInit
SpecPagination == InitPagination /\ [][PaginationNext]_vars

====
